---- MODULE Spec2Model ----
(***************************************************************************)
(* Datastar TypeScript SDK: the event generator core                       *)
(* (src/src/abstractServerSentEventGenerator.ts, src/src/consts.ts).       *)
(*                                                                         *)
(* A JavaScript string is a sequence of one-character strings, so that     *)
(* split, trim, template literals and JSON.stringify are computed on the   *)
(* characters.  A JavaScript value is a record with a type tag.  An        *)
(* options object is the sequence of its own properties in Object.keys     *)
(* order.                                                                  *)
(***************************************************************************)
EXTENDS Integers, Sequences, FiniteSets

VARIABLES pc, call, result

vars == <<pc, call, result>>

-----------------------------------------------------------------------------
(* Bounds of the model.                                                    *)

\* longest elements / signals payload that is enumerated
MaxLen == 3

\* longest array of keys handed to removeSignals
MaxKeys == 2

-----------------------------------------------------------------------------
(* Characters and strings.                                                 *)

NL == "\n"

\* the characters String.prototype.trim removes (those the payloads use)
WhiteSpace == {" ", "\n", "\t", "\r"}

RECURSIVE TrimStart(_)
TrimStart(s) ==
    IF s = <<>> THEN <<>>
    ELSE IF Head(s) \in WhiteSpace THEN TrimStart(Tail(s))
    ELSE s

RECURSIVE TrimEnd(_)
TrimEnd(s) ==
    IF s = <<>> THEN <<>>
    ELSE IF s[Len(s)] \in WhiteSpace THEN TrimEnd(SubSeq(s, 1, Len(s) - 1))
    ELSE s

\* String.prototype.trim
Trim(s) == TrimEnd(TrimStart(s))

\* String.prototype.split("\n")
RECURSIVE SplitNewline(_)
SplitNewline(s) ==
    IF \A i \in 1..Len(s) : s[i] # NL THEN <<s>>
    ELSE LET i == CHOOSE j \in 1..Len(s) :
                      s[j] = NL /\ \A k \in 1..(j - 1) : s[k] # NL
         IN  <<SubSeq(s, 1, i - 1)>> \o SplitNewline(SubSeq(s, i + 1, Len(s)))

\* Array.prototype.join
RECURSIVE Join(_, _)
Join(parts, sep) ==
    IF parts = <<>> THEN <<>>
    ELSE IF Len(parts) = 1 THEN parts[1]
    ELSE parts[1] \o sep \o Join(Tail(parts), sep)

\* Array.prototype.flatMap applied to an array of arrays
RECURSIVE Flatten(_)
Flatten(arrays) ==
    IF arrays = <<>> THEN <<>> ELSE Head(arrays) \o Flatten(Tail(arrays))

Digit(d) == <<"0", "1", "2", "3", "4", "5", "6", "7", "8", "9">>[d + 1]

\* Number.prototype.toString for the integers
RECURSIVE NatToString(_)
NatToString(n) ==
    IF n < 10 THEN <<Digit(n)>> ELSE NatToString(n \div 10) \o <<Digit(n % 10)>>

NumberToString(n) == IF n < 0 THEN <<"-">> \o NatToString(0 - n) ELSE NatToString(n)

-----------------------------------------------------------------------------
(* JavaScript values.                                                      *)

JsUndefined == [t |-> "undefined", s |-> <<>>, b |-> FALSE, n |-> 0]
JsString(str) == [t |-> "string", s |-> str, b |-> FALSE, n |-> 0]
JsBoolean(bool) == [t |-> "boolean", s |-> <<>>, b |-> bool, n |-> 0]
JsNumber(num) == [t |-> "number", s |-> <<>>, b |-> FALSE, n |-> num]

\* ToBoolean: undefined, "", false and 0 are falsy
Truthy(v) ==
    CASE v.t = "undefined" -> FALSE
      [] v.t = "string" -> v.s # <<>>
      [] v.t = "boolean" -> v.b
      [] OTHER -> v.n # 0

TxtTrue == <<"t", "r", "u", "e">>
TxtFalse == <<"f", "a", "l", "s", "e">>

\* val.toString(), defined for every value but undefined
JsToString(v) ==
    CASE v.t = "string" -> v.s
      [] v.t = "boolean" -> (IF v.b THEN TxtTrue ELSE TxtFalse)
      [] OTHER -> NumberToString(v.n)

\* an options object: its own properties, in Object.keys order
Prop(key, val) == [key |-> key, val |-> val]

HasKey(obj, key) == \E i \in 1..Len(obj) : obj[i].key = key

\* obj[key]: undefined for a property the object does not have
Get(obj, key) ==
    IF HasKey(obj, key)
    THEN obj[CHOOSE i \in 1..Len(obj) : obj[i].key = key].val
    ELSE JsUndefined

-----------------------------------------------------------------------------
(* src/src/consts.ts                                                       *)

DefaultSseRetryDurationMs == 1000
DefaultElementsUseViewTransitions == FALSE
DefaultPatchSignalsOnlyIfMissing == FALSE

DatastarDatalineSelector == <<"s", "e", "l", "e", "c", "t", "o", "r">>
DatastarDatalinePatchMode == <<"m", "o", "d", "e">>
DatastarDatalineElements == <<"e", "l", "e", "m", "e", "n", "t", "s">>
DatastarDatalineNamespace == <<"n", "a", "m", "e", "s", "p", "a", "c", "e">>
DatastarDatalineUseViewTransition ==
    <<"u", "s", "e", "V", "i", "e", "w", "T", "r", "a", "n", "s", "i", "t", "i", "o", "n">>
DatastarDatalineSignals == <<"s", "i", "g", "n", "a", "l", "s">>
DatastarDatalineOnlyIfMissing ==
    <<"o", "n", "l", "y", "I", "f", "M", "i", "s", "s", "i", "n", "g">>

ModeOuter == <<"o", "u", "t", "e", "r">>
ModeInner == <<"i", "n", "n", "e", "r">>
ModeReplace == <<"r", "e", "p", "l", "a", "c", "e">>
ModePrepend == <<"p", "r", "e", "p", "e", "n", "d">>
ModeAppend == <<"a", "p", "p", "e", "n", "d">>
ModeBefore == <<"b", "e", "f", "o", "r", "e">>
ModeAfter == <<"a", "f", "t", "e", "r">>
ModeRemove == <<"r", "e", "m", "o", "v", "e">>

ElementPatchModes ==
    <<ModeOuter, ModeInner, ModeReplace, ModePrepend, ModeAppend, ModeBefore,
      ModeAfter, ModeRemove>>

NamespaceSvg == <<"s", "v", "g">>
NamespaceMathml == <<"m", "a", "t", "h", "m", "l">>
NamespaceTypes == <<NamespaceSvg, NamespaceMathml>>

DefaultElementPatchMode == ModeOuter

EventPatchElements ==
    <<"d", "a", "t", "a", "s", "t", "a", "r", "-", "p", "a", "t", "c", "h", "-",
      "e", "l", "e", "m", "e", "n", "t", "s">>
EventPatchSignals ==
    <<"d", "a", "t", "a", "s", "t", "a", "r", "-", "p", "a", "t", "c", "h", "-",
      "s", "i", "g", "n", "a", "l", "s">>
EventTypes == <<EventPatchElements, EventPatchSignals>>

\* the names of the event options that are framing metadata, not data lines
OptEventId == <<"e", "v", "e", "n", "t", "I", "d">>
OptRetryDuration ==
    <<"r", "e", "t", "r", "y", "D", "u", "r", "a", "t", "i", "o", "n">>

\* types.ts: the option keys that have a default, with that default
DefaultMapping ==
    <<Prop(DatastarDatalinePatchMode, JsString(DefaultElementPatchMode)),
      Prop(DatastarDatalineUseViewTransition,
           JsBoolean(DefaultElementsUseViewTransitions)),
      Prop(DatastarDatalineOnlyIfMissing,
           JsBoolean(DefaultPatchSignalsOnlyIfMissing))>>

-----------------------------------------------------------------------------
(* Completions: a call returns a value or throws an error.  The kinds of   *)
(* error are the taxonomy of the specification (section 7); the code       *)
(* throws a plain Error whose message tells them apart.  A TypeError is    *)
(* thrown by the runtime, and its message depends on the engine.           *)

Normal(value) == [thrown |-> FALSE, kind |-> "", message |-> <<>>, value |-> value]
Throw(kind, message) ==
    [thrown |-> TRUE, kind |-> kind, message |-> message, value |-> <<>>]

TxtInvalidModeHead ==
    <<"I", "n", "v", "a", "l", "i", "d", " ", "E", "l", "e", "m", "e", "n", "t",
      "P", "a", "t", "c", "h", "M", "o", "d", "e", ":", " ", "\"">>
TxtInvalidModeMid ==
    <<"\"", ".", " ", "V", "a", "l", "i", "d", " ", "m", "o", "d", "e", "s", " ",
      "a", "r", "e", ":", " ">>
TxtRequiredTail ==
    <<" ", "i", "s", " ", "r", "e", "q", "u", "i", "r", "e", "d", " ", "a", "n",
      "d", " ", "c", "a", "n", "n", "o", "t", " ", "b", "e", " ", "e", "m", "p",
      "t", "y">>
TxtRemoveNeedsElements ==
    <<"F", "o", "r", " ", "r", "e", "m", "o", "v", "e", " ", "m", "o", "d", "e",
      " ", "w", "i", "t", "h", "o", "u", "t", " ", "s", "e", "l", "e", "c", "t",
      "o", "r", ",", " ", "e", "l", "e", "m", "e", "n", "t", "s", " ", "p", "a",
      "r", "a", "m", "e", "t", "e", "r", " ", "w", "i", "t", "h", " ", "I", "D",
      "s", " ", "i", "s", " ", "r", "e", "q", "u", "i", "r", "e", "d">>
TxtEvent == <<"e", "v", "e", "n", "t", ":", " ">>
TxtId == <<"i", "d", ":", " ">>
TxtRetry == <<"r", "e", "t", "r", "y", ":", " ">>
TxtData == <<"d", "a", "t", "a", ":", " ">>

\* Array.prototype.includes on an array of strings
Includes(array, item) == \E i \in 1..Len(array) : array[i] = item

\* !value || value.trim() === '' for a string or undefined
IsBlank(value) == ~Truthy(value) \/ Trim(value.s) = <<>>

-----------------------------------------------------------------------------
(* src/src/abstractServerSentEventGenerator.ts                             *)

validateElementPatchMode(mode) ==
    IF ~Includes(ElementPatchModes, mode)
    THEN Throw("InvalidModeError",
               TxtInvalidModeHead \o mode \o TxtInvalidModeMid
                   \o Join(ElementPatchModes, <<",", " ">>))
    ELSE Normal(<<>>)

\* validateRequired without the trim: white space counts as content
validateRequired_NoTrim(value, paramName) ==
    IF ~Truthy(value)
    THEN Throw("RequiredParameterError", paramName \o TxtRequiredTail)
    ELSE Normal(<<>>)

validateRequired(value, paramName) ==
    IF IsBlank(value)
    THEN Throw("RequiredParameterError", paramName \o TxtRequiredTail)
    ELSE Normal(<<>>)

\* send with the retry line put before the id line
send_RetryBeforeId(event, dataLines, options) ==
    LET eventId == Get(options, OptEventId)
        retryDuration == Get(options, OptRetryDuration)
        idLine == IF Truthy(eventId)
                  THEN <<TxtId \o JsToString(eventId) \o <<NL>>>>
                  ELSE <<>>
        retryLine == IF ~Truthy(retryDuration) \/ retryDuration = JsNumber(1000)
                     THEN <<>>
                     ELSE <<TxtRetry \o JsToString(retryDuration) \o <<NL>>>>
    IN  <<TxtEvent \o event \o <<NL>>>> \o retryLine \o idLine
            \o [i \in 1..Len(dataLines) |-> TxtData \o dataLines[i] \o <<NL>>]
            \o <<<<NL>>>>

send(event, dataLines, options) ==
    LET eventId == Get(options, OptEventId)
        retryDuration == Get(options, OptRetryDuration)
        typeLine == <<TxtEvent \o event \o <<NL>>>>
        idLine == IF Truthy(eventId)
                  THEN <<TxtId \o JsToString(eventId) \o <<NL>>>>
                  ELSE <<>>
        retryLine == IF ~Truthy(retryDuration) \/ retryDuration = JsNumber(1000)
                     THEN <<>>
                     ELSE <<TxtRetry
                                \o JsToString(IF retryDuration.t = "undefined"
                                              THEN JsNumber(DefaultSseRetryDurationMs)
                                              ELSE retryDuration)
                                \o <<NL>>>>
    IN  typeLine \o idLine \o retryLine
            \o [i \in 1..Len(dataLines) |-> TxtData \o dataLines[i] \o <<NL>>]
            \o <<<<NL>>>>

\* eachNewlineIsADataLine without the split: one line whatever the data
eachNewlineIsADataLine_NoSplit(prefix, data) == <<prefix \o <<" ">> \o data>>

\* eachNewlineIsADataLine trimming each physical line
eachNewlineIsADataLine_Trimmed(prefix, data) ==
    LET lines == SplitNewline(data)
    IN  [i \in 1..Len(lines) |-> prefix \o <<" ">> \o Trim(lines[i])]

eachNewlineIsADataLine(prefix, data) ==
    LET lines == SplitNewline(data)
    IN  [i \in 1..Len(lines) |-> prefix \o <<" ">> \o lines[i]]

\* hasDefaultValue looking at the key alone
hasDefaultValue_IgnoresValue(key, val) == HasKey(DefaultMapping, key)

\* hasDefaultValue that never finds a default
hasDefaultValue_NeverDefault(key, val) == FALSE

hasDefaultValue(key, val) ==
    IF HasKey(DefaultMapping, key) THEN val = Get(DefaultMapping, key) ELSE FALSE

\* options[key]!.toString() throws a TypeError for a kept key whose value is
\* undefined
eachOptionIsADataLine(options) ==
    LET kept == SelectSeq(options, LAMBDA p : ~hasDefaultValue(p.key, p.val))
    IN  IF \E i \in 1..Len(kept) : kept[i].val.t = "undefined"
        THEN Throw("TypeError", <<>>)
        ELSE Normal(Flatten([i \in 1..Len(kept) |->
                 eachNewlineIsADataLine(kept[i].key, JsToString(kept[i].val))]))

\* const { eventId, retryDuration, ...rest } = options || {}
RestOptions(options) ==
    SelectSeq(options, LAMBDA p : p.key \notin {OptEventId, OptRetryDuration})

\* { eventId, retryDuration }
EventOptions(options) ==
    <<Prop(OptEventId, Get(options, OptEventId)),
      Prop(OptRetryDuration, Get(options, OptRetryDuration))>>

\* what an emitting operation hands back: the lines send returned, with the
\* arguments send was called with, or the error thrown before send was reached
Returned(event, dataLines, options) ==
    [ok |-> TRUE, lines |-> send(event, dataLines, options),
     error |-> Normal(<<>>),
     sent |-> [event |-> event, dataLines |-> dataLines, options |-> options]]

Thrown(completion) ==
    [ok |-> FALSE, lines |-> <<>>, error |-> completion,
     sent |-> [event |-> <<>>, dataLines |-> <<>>, options |-> <<>>]]

patchElements(elements, options) ==
    LET renderOptions == RestOptions(options)
        patchMode == Get(renderOptions, DatastarDatalinePatchMode)
        modeCheck == IF Truthy(patchMode)
                     THEN validateElementPatchMode(patchMode.s)
                     ELSE Normal(<<>>)
        selector == Get(renderOptions, DatastarDatalineSelector)
        isRemoveWithSelector ==
            patchMode = JsString(ModeRemove) /\ Truthy(selector)
        requiredCheck == IF ~isRemoveWithSelector
                         THEN validateRequired(elements, DatastarDatalineElements)
                         ELSE Normal(<<>>)
        removeCheck ==
            IF ~Truthy(selector) /\ patchMode = JsString(ModeRemove)
                   /\ IsBlank(elements)
            THEN Throw("RequiredParameterError", TxtRemoveNeedsElements)
            ELSE Normal(<<>>)
        optionLines == eachOptionIsADataLine(renderOptions)
    IN  IF modeCheck.thrown THEN Thrown(modeCheck)
        ELSE IF requiredCheck.thrown THEN Thrown(requiredCheck)
        ELSE IF removeCheck.thrown THEN Thrown(removeCheck)
        ELSE IF optionLines.thrown THEN Thrown(optionLines)
        \* elements.trim() on undefined
        ELSE IF isRemoveWithSelector /\ elements.t = "undefined"
        THEN Thrown(Throw("TypeError", <<>>))
        ELSE LET dataLines ==
                     IF ~isRemoveWithSelector \/ Trim(elements.s) # <<>>
                     THEN optionLines.value
                              \o eachNewlineIsADataLine(DatastarDatalineElements,
                                                        elements.s)
                     ELSE optionLines.value
             IN  Returned(EventPatchElements, dataLines, EventOptions(options))

patchSignals(signals, options) ==
    LET requiredCheck == validateRequired(signals, DatastarDatalineSignals)
        eventOptions == RestOptions(options)
        optionLines == eachOptionIsADataLine(eventOptions)
    IN  IF requiredCheck.thrown THEN Thrown(requiredCheck)
        ELSE IF optionLines.thrown THEN Thrown(optionLines)
        ELSE Returned(EventPatchSignals,
                      optionLines.value
                          \o eachNewlineIsADataLine(DatastarDatalineSignals,
                                                    signals.s),
                      EventOptions(options))

-----------------------------------------------------------------------------
(* removeSignals builds an object and serialises it.  An object is its own *)
(* property keys in property order (array indices first, ascending, then   *)
(* the other keys in insertion order) and its prototype.                   *)

TxtProto == <<"_", "_", "p", "r", "o", "t", "o", "_", "_">>
TxtNullMember == <<":", "n", "u", "l", "l">>

Runtimes == {"node", "deno", "bun"}

\* Object.prototype.__proto__ is an accessor in Node and Bun; Deno deletes it
HasProtoAccessor(runtime) == runtime \in {"node", "bun"}

Digits == {"0", "1", "2", "3", "4", "5", "6", "7", "8", "9"}

DigitValue(c) == CHOOSE d \in 0..9 : Digit(d) = c

RECURSIVE ParseNat(_)
ParseNat(s) ==
    IF s = <<>> THEN 0
    ELSE 10 * ParseNat(SubSeq(s, 1, Len(s) - 1)) + DigitValue(s[Len(s)])

\* a canonical array index: the decimal text of an integer below 2^32 - 1.
\* The keys of the model have fewer than ten digits, so the upper limit is
\* never reached.
IsArrayIndex(key) ==
    /\ key # <<>>
    /\ Len(key) < 10
    /\ \A i \in 1..Len(key) : key[i] \in Digits
    /\ (Len(key) > 1 => key[1] # "0")

EmptyObject == [keys |-> <<>>, proto |-> "Object.prototype"]

\* patch[key] = null
SetNull(obj, key, runtime) ==
    IF Includes(obj.keys, key) THEN obj
    ELSE IF key = TxtProto /\ obj.proto = "Object.prototype"
            /\ HasProtoAccessor(runtime)
    THEN [obj EXCEPT !.proto = "null"]
    ELSE IF IsArrayIndex(key)
    THEN LET below == SelectSeq(obj.keys, LAMBDA k :
                          IsArrayIndex(k) /\ ParseNat(k) < ParseNat(key))
             rest == SelectSeq(obj.keys, LAMBDA k :
                          ~(IsArrayIndex(k) /\ ParseNat(k) < ParseNat(key)))
         IN  [obj EXCEPT !.keys = below \o <<key>> \o rest]
    ELSE [obj EXCEPT !.keys = Append(obj.keys, key)]

\* for (const key of keys) patch[key] = null
RECURSIVE SetAllNull(_, _, _)
SetAllNull(obj, keys, runtime) ==
    IF keys = <<>> THEN obj
    ELSE SetAllNull(SetNull(obj, Head(keys), runtime), Tail(keys), runtime)

\* JSON.stringify of a string: the quotes, and the escapes of ", \ and the
\* control characters
JsonEscape(c) ==
    CASE c = "\"" -> <<"\\", "\"">>
      [] c = "\\" -> <<"\\", "\\">>
      [] c = "\n" -> <<"\\", "n">>
      [] c = "\r" -> <<"\\", "r">>
      [] c = "\t" -> <<"\\", "t">>
      [] OTHER -> <<c>>

JsonQuote(str) ==
    <<"\"">> \o Flatten([i \in 1..Len(str) |-> JsonEscape(str[i])]) \o <<"\"">>

\* JSON.stringify of an object whose own properties are all null
JsonStringify(obj) ==
    <<"{">>
        \o Join([i \in 1..Len(obj.keys) |-> JsonQuote(obj.keys[i]) \o TxtNullMember],
                <<",">>)
        \o <<"}">>

\* signalKeys is one key (isArray false, the key is signalKeys[1]) or an array
removeSignals(signalKeys, isArray, options, runtime) ==
    LET keys == IF isArray THEN signalKeys ELSE <<signalKeys[1]>>
        patch == SetAllNull(EmptyObject, keys, runtime)
    IN  patchSignals(JsString(JsonStringify(patch)), options)

-----------------------------------------------------------------------------
(* executeScript and removeElements                                        *)

TxtScriptOpen == <<"<", "s", "c", "r", "i", "p", "t">>
TxtScriptClose == <<"<", "/", "s", "c", "r", "i", "p", "t", ">">>
TxtDataEffect ==
    <<" ", "d", "a", "t", "a", "-", "e", "f", "f", "e", "c", "t", "=", "\"", "e",
      "l", ".", "r", "e", "m", "o", "v", "e", "(", ")", "\"">>
TxtBody == <<"b", "o", "d", "y">>
TxtEitherSelectorOrElements ==
    <<"E", "i", "t", "h", "e", "r", " ", "s", "e", "l", "e", "c", "t", "o", "r",
      " ", "o", "r", " ", "e", "l", "e", "m", "e", "n", "t", "s", " ", "(", "w",
      "i", "t", "h", " ", "I", "D", "s", ")", " ", "m", "u", "s", "t", " ", "b",
      "e", " ", "p", "r", "o", "v", "i", "d", "e", "d", " ", "t", "o", " ", "r",
      "e", "m", "o", "v", "e", " ", "e", "l", "e", "m", "e", "n", "t", "s", ".">>
OptAutoRemove == <<"a", "u", "t", "o", "R", "e", "m", "o", "v", "e">>

\* the attributes option: absent, an object of string values (its properties
\* in order) or an array of strings
NoAttributes == [form |-> "absent", entries |-> <<>>]
ObjectAttributes(props) == [form |-> "object", entries |-> props]
ArrayAttributes(items) == [form |-> "array", entries |-> items]

\* executeScript adding the self-removal attribute whatever autoRemove is
executeScript_AlwaysSelfRemoving(script, options, attributesArg) ==
    LET attributes == IF attributesArg.form = "absent"
                      THEN ObjectAttributes(<<>>)
                      ELSE attributesArg
        entries == attributes.entries
        attrList ==
            IF attributes.form = "object"
            THEN Join([i \in 1..Len(entries) |->
                          <<" ">> \o entries[i].key \o <<"=", "\"">>
                              \o entries[i].val.s \o <<"\"">>],
                      <<>>)
            ELSE IF Len(entries) > 0
            THEN <<" ">> \o Join(entries, <<" ">>)
            ELSE <<>>
        scriptTag == TxtScriptOpen \o attrList \o TxtDataEffect \o <<">">>
                         \o script.s \o TxtScriptClose
        dataLines ==
            eachNewlineIsADataLine(DatastarDatalinePatchMode, ModeAppend)
                \o eachNewlineIsADataLine(DatastarDatalineSelector, TxtBody)
                \o eachNewlineIsADataLine(DatastarDatalineElements, scriptTag)
    IN  Returned(EventPatchElements, dataLines, EventOptions(options))

\* executeScript putting the selector line before the mode line
executeScript_SelectorFirst(script, options, attributesArg) ==
    LET autoRemove == IF Get(options, OptAutoRemove).t = "undefined"
                      THEN JsBoolean(TRUE)
                      ELSE Get(options, OptAutoRemove)
        attributes == IF attributesArg.form = "absent"
                      THEN ObjectAttributes(<<>>)
                      ELSE attributesArg
        entries == attributes.entries
        attrList ==
            IF attributes.form = "object"
            THEN Join([i \in 1..Len(entries) |->
                          <<" ">> \o entries[i].key \o <<"=", "\"">>
                              \o entries[i].val.s \o <<"\"">>],
                      <<>>)
            ELSE IF Len(entries) > 0
            THEN <<" ">> \o Join(entries, <<" ">>)
            ELSE <<>>
        attrString == IF Truthy(autoRemove) THEN attrList \o TxtDataEffect
                      ELSE attrList
        scriptTag == TxtScriptOpen \o attrString \o <<">">> \o script.s
                         \o TxtScriptClose
        dataLines ==
            eachNewlineIsADataLine(DatastarDatalineSelector, TxtBody)
                \o eachNewlineIsADataLine(DatastarDatalinePatchMode, ModeAppend)
                \o eachNewlineIsADataLine(DatastarDatalineElements, scriptTag)
    IN  Returned(EventPatchElements, dataLines, EventOptions(options))

executeScript(script, options, attributesArg) ==
    LET autoRemove == IF Get(options, OptAutoRemove).t = "undefined"
                      THEN JsBoolean(TRUE)
                      ELSE Get(options, OptAutoRemove)
        attributes == IF attributesArg.form = "absent"
                      THEN ObjectAttributes(<<>>)
                      ELSE attributesArg
        entries == attributes.entries
        attrList ==
            IF attributes.form = "object"
            THEN Join([i \in 1..Len(entries) |->
                          <<" ">> \o entries[i].key \o <<"=", "\"">>
                              \o entries[i].val.s \o <<"\"">>],
                      <<>>)
            ELSE IF Len(entries) > 0
            THEN <<" ">> \o Join(entries, <<" ">>)
            ELSE <<>>
        attrString == IF Truthy(autoRemove) THEN attrList \o TxtDataEffect
                      ELSE attrList
        scriptTag == TxtScriptOpen \o attrString \o <<">">> \o script.s
                         \o TxtScriptClose
        dataLines ==
            eachNewlineIsADataLine(DatastarDatalinePatchMode, ModeAppend)
                \o eachNewlineIsADataLine(DatastarDatalineSelector, TxtBody)
                \o eachNewlineIsADataLine(DatastarDatalineElements, scriptTag)
    IN  Returned(EventPatchElements, dataLines, EventOptions(options))

removeElements(selector, elements, options) ==
    IF ~Truthy(selector) /\ IsBlank(elements)
    THEN Thrown(Throw("RequiredParameterError", TxtEitherSelectorOrElements))
    ELSE patchElements(
             IF elements.t = "undefined" THEN JsString(<<>>) ELSE elements,
             <<Prop(DatastarDatalineSelector, selector),
               Prop(DatastarDatalinePatchMode, JsString(ModeRemove)),
               Prop(OptEventId, Get(options, OptEventId)),
               Prop(OptRetryDuration, Get(options, OptRetryDuration))>>)

-----------------------------------------------------------------------------
(* The arguments the calls are made with.                                  *)

Alphabet == {"a", " ", NL}

Strings(n) == UNION {[1..k -> Alphabet] : k \in 0..n}

\* an argument that is left out of the call or of its options object
JsAbsent == [t |-> "absent", s |-> <<>>, b |-> FALSE, n |-> 0]

\* the object literal of the properties that are given
MkObject(props) == SelectSeq(props, LAMBDA p : p.val.t # "absent")

Reverse(seq) == [i \in 1..Len(seq) |-> seq[Len(seq) + 1 - i]]

ModeSet == {ElementPatchModes[i] : i \in 1..Len(ElementPatchModes)}

PayloadArgs == {JsString(str) : str \in Strings(MaxLen)} \cup {JsUndefined}
ScriptArgs == {JsString(str) : str \in Strings(MaxLen)}
ModeArgs == {JsString(m) : m \in ModeSet \cup {<<>>, <<"x">>}} \cup {JsAbsent}
SelectorStrings == {<<>>, <<"#">>, <<"#", NL, ".">>}
SelectorArgs == {JsString(str) : str \in SelectorStrings} \cup {JsAbsent}
UseViewTransitionArgs == {JsBoolean(TRUE), JsBoolean(FALSE), JsAbsent}
NamespaceArgs == {JsString(NamespaceSvg), JsAbsent}
OnlyIfMissingArgs == {JsBoolean(TRUE), JsBoolean(FALSE), JsAbsent}
AutoRemoveArgs == {JsBoolean(TRUE), JsBoolean(FALSE), JsAbsent}
EventIdArgs ==
    {JsString(<<>>), JsString(<<"7">>), JsString(<<"7", NL, "x">>), JsAbsent}
RetryDurationArgs == {JsNumber(0), JsNumber(1000), JsNumber(2500), JsAbsent}
AttributesArgs ==
    {NoAttributes, ObjectAttributes(<<>>), ArrayAttributes(<<>>),
     ObjectAttributes(<<Prop(<<"i", "d">>, JsString(<<"s">>))>>),
     ArrayAttributes(<<<<"a", "s", "y", "n", "c">>, <<"d", "e", "f", "e", "r">>>>)}
KeyArgs == {<<"a">>, <<"b">>, <<"1">>, <<"\"">>, TxtProto}
KeyArrays == UNION {[1..k -> KeyArgs] : k \in 0..MaxKeys}

-----------------------------------------------------------------------------
(* The state machine: one call of an emitting operation at a time.         *)

NoCall ==
    [op |-> "none", payload |-> JsUndefined, options |-> <<>>,
     selector |-> JsUndefined, attributes |-> NoAttributes, keys |-> <<>>,
     isArray |-> FALSE, runtime |-> "node"]

NoResult == Thrown(Normal(<<>>))

Init ==
    /\ pc = "idle"
    /\ call = NoCall
    /\ result = NoResult

PatchElements ==
    /\ pc = "idle"
    /\ \E elements \in PayloadArgs, mode \in ModeArgs, selector \in SelectorArgs,
          useViewTransition \in UseViewTransitionArgs, namespace \in NamespaceArgs,
          eventId \in EventIdArgs, retryDuration \in RetryDurationArgs,
          reversed \in BOOLEAN :
          LET render == MkObject(<<Prop(DatastarDatalineSelector, selector),
                                   Prop(DatastarDatalinePatchMode, mode),
                                   Prop(DatastarDatalineUseViewTransition,
                                        useViewTransition),
                                   Prop(DatastarDatalineNamespace, namespace)>>)
              options == (IF reversed THEN Reverse(render) ELSE render)
                             \o MkObject(<<Prop(OptEventId, eventId),
                                           Prop(OptRetryDuration, retryDuration)>>)
          IN  /\ call' = [NoCall EXCEPT !.op = "patchElements",
                                        !.payload = elements,
                                        !.options = options]
              /\ result' = patchElements(elements, options)
    /\ pc' = "done"

PatchSignals ==
    /\ pc = "idle"
    /\ \E signals \in PayloadArgs, onlyIfMissing \in OnlyIfMissingArgs,
          eventId \in EventIdArgs, retryDuration \in RetryDurationArgs :
          LET options == MkObject(<<Prop(DatastarDatalineOnlyIfMissing, onlyIfMissing),
                                    Prop(OptEventId, eventId),
                                    Prop(OptRetryDuration, retryDuration)>>)
          IN  /\ call' = [NoCall EXCEPT !.op = "patchSignals",
                                        !.payload = signals,
                                        !.options = options]
              /\ result' = patchSignals(signals, options)
    /\ pc' = "done"

ExecuteScript ==
    /\ pc = "idle"
    /\ \E script \in ScriptArgs, autoRemove \in AutoRemoveArgs,
          attributes \in AttributesArgs,
          eventId \in EventIdArgs, retryDuration \in RetryDurationArgs :
          LET options == MkObject(<<Prop(OptAutoRemove, autoRemove),
                                    Prop(OptEventId, eventId),
                                    Prop(OptRetryDuration, retryDuration)>>)
          IN  /\ call' = [NoCall EXCEPT !.op = "executeScript",
                                        !.payload = script,
                                        !.options = options,
                                        !.attributes = attributes]
              /\ result' = executeScript(script, options, attributes)
    /\ pc' = "done"

RemoveElements ==
    /\ pc = "idle"
    /\ \E selector \in {JsString(str) : str \in SelectorStrings} \cup {JsUndefined},
          elements \in PayloadArgs,
          eventId \in EventIdArgs, retryDuration \in RetryDurationArgs :
          LET options == MkObject(<<Prop(OptEventId, eventId),
                                    Prop(OptRetryDuration, retryDuration)>>)
          IN  /\ call' = [NoCall EXCEPT !.op = "removeElements",
                                        !.payload = elements,
                                        !.selector = selector,
                                        !.options = options]
              /\ result' = removeElements(selector, elements, options)
    /\ pc' = "done"

RemoveSignals ==
    /\ pc = "idle"
    /\ \E isArray \in BOOLEAN, signalKeys \in KeyArrays,
          onlyIfMissing \in OnlyIfMissingArgs,
          eventId \in EventIdArgs, retryDuration \in RetryDurationArgs,
          runtime \in Runtimes :
          LET options == MkObject(<<Prop(DatastarDatalineOnlyIfMissing, onlyIfMissing),
                                    Prop(OptEventId, eventId),
                                    Prop(OptRetryDuration, retryDuration)>>)
          IN  /\ (~isArray => Len(signalKeys) = 1)
              /\ call' = [NoCall EXCEPT !.op = "removeSignals",
                                        !.keys = signalKeys,
                                        !.isArray = isArray,
                                        !.options = options,
                                        !.runtime = runtime]
              /\ result' = removeSignals(signalKeys, isArray, options, runtime)
    /\ pc' = "done"

\* the caller takes the lines (or catches the error) and may call again
Return ==
    /\ pc = "done"
    /\ pc' = "idle"
    /\ call' = NoCall
    /\ result' = NoResult

Next ==
    \/ PatchElements
    \/ PatchSignals
    \/ ExecuteScript
    \/ RemoveElements
    \/ RemoveSignals
    \/ Return

Spec == Init /\ [][Next]_vars

-----------------------------------------------------------------------------
(* Vocabulary of the properties.                                           *)

Done(op) == pc = "done" /\ call.op = op

\* the string begins with the prefix
StartsWith(s, prefix) ==
    Len(s) >= Len(prefix) /\ SubSeq(s, 1, Len(prefix)) = prefix

\* the string has the part somewhere in it
Contains(s, part) ==
    \E i \in 0..(Len(s) - Len(part)) : SubSeq(s, i + 1, i + Len(part)) = part

Emitted == pc = "done" /\ result.ok

\* the framed form of one data line
DataLine(text) == TxtData \o text \o <<NL>>

HasLine(line) == Includes(result.lines, line)

\* the returned lines that carry the given data-line prefix
LinesOf(prefix) ==
    SelectSeq(result.lines, LAMBDA l : StartsWith(l, TxtData \o prefix \o <<" ">>))

\* the text of each returned data line
DataLinesReturned ==
    LET framed == SelectSeq(result.lines, LAMBDA l : StartsWith(l, TxtData))
    IN  [i \in 1..Len(framed) |->
            SubSeq(framed[i], Len(TxtData) + 1, Len(framed[i]) - 1)]

Failed(kind) == pc = "done" /\ ~result.ok /\ result.error.kind = kind

ModeGiven == HasKey(call.options, DatastarDatalinePatchMode)
ModeArg == Get(call.options, DatastarDatalinePatchMode)
SelectorArg == Get(call.options, DatastarDatalineSelector)

ModeValidOrOmitted == ~ModeGiven \/ ModeArg.s \in ModeSet

\* the options object is {mode: m} or is empty
OnlyModeGiven ==
    call.options \in {<<>>, <<Prop(DatastarDatalinePatchMode, ModeArg)>>}

\* the payload has a character that is not white space
PayloadNonBlank ==
    /\ call.payload.t = "string"
    /\ \E i \in 1..Len(call.payload.s) : call.payload.s[i] \notin WhiteSpace

PayloadBlank == ~PayloadNonBlank

ModeLineRule ==
    /\ ModeGiven =>
           (HasLine(DataLine(DatastarDatalinePatchMode \o <<" ">> \o ModeArg.s))
                <=> ModeArg.s # ModeOuter)
    /\ (~ModeGiven \/ ModeArg.s = ModeOuter) =>
           LinesOf(DatastarDatalinePatchMode) = <<>>

RemoveViaSelector == ModeArg = JsString(ModeRemove) /\ Truthy(SelectorArg)

-----------------------------------------------------------------------------
(* C1                                                                      *)

\* C1 as stated: for every valid mode m and every non-empty elements payload,
\* patchElements(html, {mode: m}) returns an event that has the `mode <m>`
\* data line iff m is not "outer", and no mode line for "outer" or no mode.
C1_ModeLineForNonEmptyPayload ==
    (/\ Done("patchElements")
     /\ OnlyModeGiven
     /\ ModeValidOrOmitted
     /\ call.payload.t = "string"
     /\ call.payload.s # <<>>)
        => /\ ModeGiven =>
                  ((/\ result.ok
                    /\ HasLine(DataLine(DatastarDatalinePatchMode \o <<" ">>
                                            \o ModeArg.s)))
                       <=> ModeArg.s # ModeOuter)
           /\ (~ModeGiven \/ ModeArg.s = ModeOuter) =>
                  LinesOf(DatastarDatalinePatchMode) = <<>>

\* C1 amended: the same for every elements payload that is not blank (that
\* has a character other than white space), whatever the other options are.
C1_ModeLineIffNotOuter ==
    (/\ Done("patchElements")
     /\ ModeValidOrOmitted
     /\ PayloadNonBlank)
        => (result.ok /\ ModeLineRule)

C1_Witness ==
    /\ Done("patchElements")
    /\ call.options = <<Prop(DatastarDatalinePatchMode, JsString(ModeInner))>>
    /\ PayloadNonBlank
    /\ HasLine(DataLine(DatastarDatalinePatchMode \o <<" ">> \o ModeInner))

-----------------------------------------------------------------------------
(* C2                                                                      *)

\* C2: for every mode string that is supplied and is not one of the eight
\* patch modes, patchElements fails with InvalidModeError, whose message has
\* the offending value and the eight valid modes, and returns no event.
\* Stated for the calls with no other option and a payload that is not blank,
\* where no other check can fail.
C2_InvalidModeFails ==
    (/\ Done("patchElements")
     /\ ModeGiven
     /\ ModeArg.s \notin ModeSet
     /\ OnlyModeGiven
     /\ PayloadNonBlank)
        => /\ Failed("InvalidModeError")
           /\ result.lines = <<>>
           /\ Contains(result.error.message, <<"\"">> \o ModeArg.s \o <<"\"">>)
           /\ \A m \in ModeSet : Contains(result.error.message, m)

-----------------------------------------------------------------------------
(* C3                                                                      *)

\* C3 as stated: patchElements fails with RequiredParameterError exactly
\* when the elements payload is absent, empty or white space only and it is
\* not the case that mode is "remove" with a non-empty selector.
C3_BlankElementsRequired ==
    Done("patchElements")
        => (Failed("RequiredParameterError")
                <=> (PayloadBlank /\ ~RemoveViaSelector))

\* C3 amended: the same unless the mode fails validation first (then the
\* failure is InvalidModeError); the error is always that of the first check,
\* the second check of the remove path never decides.
C3_BlankElementsRequiredAfterMode ==
    (Done("patchElements") /\ ~Failed("InvalidModeError"))
        => /\ Failed("RequiredParameterError")
                  <=> (PayloadBlank /\ ~RemoveViaSelector)
           /\ Failed("RequiredParameterError")
                  => result.error.message
                         = DatastarDatalineElements \o TxtRequiredTail

C3_Witness ==
    /\ Done("patchElements")
    /\ call.payload = JsString(<<>>)
    /\ ModeArg = JsString(ModeRemove)
    /\ HasKey(call.options, DatastarDatalineSelector)
    /\ SelectorArg = JsString(<<>>)
    /\ Failed("RequiredParameterError")

-----------------------------------------------------------------------------
(* C4                                                                      *)

RemovedBySelector ==
    /\ result.ok
    /\ result.lines[1] = TxtEvent \o EventPatchElements \o <<NL>>
    /\ HasLine(DataLine(DatastarDatalinePatchMode \o <<" ">> \o ModeRemove))
    /\ LinesOf(DatastarDatalineElements) = <<>>

\* C4 as stated: for every non-empty selector s, patchElements with an empty
\* or white-space payload, mode "remove" and selector s returns a
\* datastar-patch-elements event with the data lines `selector <s>` and
\* `mode remove` and no elements line.
C4_RemoveBySelectorLine ==
    (/\ Done("patchElements")
     /\ call.payload.t = "string"
     /\ PayloadBlank
     /\ RemoveViaSelector)
        => /\ RemovedBySelector
           /\ HasLine(DataLine(DatastarDatalineSelector \o <<" ">> \o SelectorArg.s))

\* C4 amended: the event has one `selector <line>` data line for each
\* physical line of s, in order (the one line `selector <s>` when s has no
\* newline), the `mode remove` line and no elements line.
C4_RemoveBySelectorLines ==
    (/\ Done("patchElements")
     /\ call.payload.t = "string"
     /\ PayloadBlank
     /\ RemoveViaSelector)
        => /\ RemovedBySelector
           /\ LET parts == SplitNewline(SelectorArg.s)
              IN  LinesOf(DatastarDatalineSelector)
                      = [i \in 1..Len(parts) |->
                            DataLine(DatastarDatalineSelector \o <<" ">> \o parts[i])]
           /\ (\A i \in 1..Len(SelectorArg.s) : SelectorArg.s[i] # NL)
                  => HasLine(DataLine(DatastarDatalineSelector \o <<" ">>
                                          \o SelectorArg.s))

C4_Witness ==
    /\ Done("patchElements")
    /\ call.payload = JsString(<<" ">>)
    /\ RemoveViaSelector
    /\ Len(SplitNewline(SelectorArg.s)) = 2
    /\ result.ok
    /\ Len(LinesOf(DatastarDatalineSelector)) = 2

-----------------------------------------------------------------------------
(* C5                                                                      *)

\* the elements lines returned are the physical lines of the payload, one
\* each, in order and unchanged
ElementsLinePerPhysicalLine ==
    LET parts == SplitNewline(call.payload.s)
    IN  LinesOf(DatastarDatalineElements)
            = [i \in 1..Len(parts) |->
                  DataLine(DatastarDatalineElements \o <<" ">> \o parts[i])]

\* C5 as stated: for every elements payload of k physical lines separated by
\* newlines, the event patchElements returns has exactly k elements lines,
\* one per physical line, in order and unchanged.
C5_ElementsLinePerLine ==
    (/\ Done("patchElements")
     /\ call.payload.t = "string"
     /\ Len(SplitNewline(call.payload.s)) >= 2
     /\ result.ok)
        => ElementsLinePerPhysicalLine

\* C5 amended: the same for every payload that is not blank; such a call
\* fails only when the mode is invalid.
C5_ElementsLinePerLineNonBlank ==
    (Done("patchElements") /\ PayloadNonBlank)
        => /\ result.ok \/ Failed("InvalidModeError")
           /\ result.ok => ElementsLinePerPhysicalLine

C5_Witness ==
    /\ Done("patchElements")
    /\ PayloadNonBlank
    /\ Len(SplitNewline(call.payload.s)) = 3
    /\ result.ok
    /\ Len(LinesOf(DatastarDatalineElements)) = 3

-----------------------------------------------------------------------------
(* C6                                                                      *)

\* C6: every event returned has the frame order: the `event: <type>` line
\* first, with one of the two event types, then the `id:` line if there is
\* one, then the `retry:` line if there is one, then one `data:` line for
\* each entry of dataLines in the same order, then the blank line, which is
\* last and occurs once.
C6_FrameOrder ==
    Emitted =>
        LET lines == result.lines
            n == Len(lines)
            hasId == n >= 2 /\ StartsWith(lines[2], TxtId)
            retryAt == IF hasId THEN 3 ELSE 2
            hasRetry == n >= retryAt /\ StartsWith(lines[retryAt], TxtRetry)
            dataAt == IF hasRetry THEN retryAt + 1 ELSE retryAt
            dataLines == result.sent.dataLines
        IN  /\ \E type \in {EventPatchElements, EventPatchSignals} :
                   lines[1] = TxtEvent \o type \o <<NL>>
            /\ n = dataAt + Len(dataLines)
            /\ \A i \in 1..Len(dataLines) :
                   lines[dataAt + i - 1] = DataLine(dataLines[i])
            /\ lines[n] = <<NL>>
            /\ \A i \in 1..(n - 1) : lines[i] # <<NL>>
            /\ \A i \in 1..n :
                   /\ StartsWith(lines[i], TxtEvent) => i = 1
                   /\ StartsWith(lines[i], TxtId) => i = 2
                   /\ StartsWith(lines[i], TxtRetry) => i = retryAt

C6_Witness ==
    /\ Emitted
    /\ StartsWith(result.lines[2], TxtId)
    /\ StartsWith(result.lines[3], TxtRetry)
    /\ Len(result.sent.dataLines) >= 2
    /\ Len(result.lines) = 4 + Len(result.sent.dataLines)

-----------------------------------------------------------------------------
(* C7                                                                      *)

RetryGiven == HasKey(call.options, OptRetryDuration)
RetryArg == Get(call.options, OptRetryDuration)

\* C7: the event returned has a `retry: <ms>` line iff a retryDuration was
\* given and it is not 1000, and the line carries the value given.  Stated
\* for the calls of every emitting operation that give no other option.
C7_RetryLineIffGiven ==
    (Emitted /\ call.options \in {<<>>, <<Prop(OptRetryDuration, RetryArg)>>}) =>
        /\ (\E i \in 1..Len(result.lines) : StartsWith(result.lines[i], TxtRetry))
               <=> (RetryGiven /\ RetryArg.n # 1000)
        /\ (RetryGiven /\ RetryArg.n # 1000)
               => HasLine(TxtRetry \o NumberToString(RetryArg.n) \o <<NL>>)

-----------------------------------------------------------------------------
(* C8                                                                      *)

EventIdGiven == HasKey(call.options, OptEventId)
EventIdArg == Get(call.options, OptEventId)

\* C8: the event returned has an `id: <eventId>` line iff an eventId was
\* given, whatever string it is.  Stated for the calls of every emitting
\* operation that give no other option.
C8_IdLineIffGiven ==
    (Emitted /\ call.options \in {<<>>, <<Prop(OptEventId, EventIdArg)>>}) =>
        /\ (\E i \in 1..Len(result.lines) : StartsWith(result.lines[i], TxtId))
               <=> EventIdGiven
        /\ EventIdGiven => HasLine(TxtId \o EventIdArg.s \o <<NL>>)

-----------------------------------------------------------------------------
(* C9                                                                      *)

TxtOnlyIfMissingTrue == DatastarDatalineOnlyIfMissing \o <<" ">> \o TxtTrue

\* C9: patchSignals fails with RequiredParameterError iff the signals payload
\* is absent, empty or white space only; otherwise it returns a
\* datastar-patch-signals event whose data lines are `onlyIfMissing true`
\* exactly when onlyIfMissing is true, then one `signals <line>` line for
\* each physical line of the payload, in order.
C9_PatchSignals ==
    Done("patchSignals") =>
        /\ Failed("RequiredParameterError") <=> PayloadBlank
        /\ result.ok <=> PayloadNonBlank
        /\ PayloadNonBlank =>
               LET parts == SplitNewline(call.payload.s)
                   optionLines ==
                       IF Get(call.options, DatastarDatalineOnlyIfMissing)
                              = JsBoolean(TRUE)
                       THEN <<TxtOnlyIfMissingTrue>>
                       ELSE <<>>
               IN  /\ result.lines[1] = TxtEvent \o EventPatchSignals \o <<NL>>
                   /\ DataLinesReturned
                          = optionLines
                                \o [i \in 1..Len(parts) |->
                                      DatastarDatalineSignals \o <<" ">> \o parts[i]]

C9_Witness ==
    /\ Done("patchSignals")
    /\ Get(call.options, DatastarDatalineOnlyIfMissing) = JsBoolean(TRUE)
    /\ PayloadNonBlank
    /\ Len(SplitNewline(call.payload.s)) = 2
    /\ result.ok
    /\ Len(DataLinesReturned) = 3

C9_WitnessDefaultElided ==
    /\ Done("patchSignals")
    /\ Get(call.options, DatastarDatalineOnlyIfMissing) = JsBoolean(FALSE)
    /\ result.ok
    /\ LinesOf(DatastarDatalineOnlyIfMissing) = <<>>

-----------------------------------------------------------------------------
(* C10                                                                     *)

\* the keys removeSignals was given, a single key being the array of it
KeysGiven == IF call.isArray THEN call.keys ELSE <<call.keys[1]>>

\* the JSON object texts that map each of the keys to null: one for each
\* order of the distinct keys
NullPatchTexts(keys) ==
    LET distinct == {keys[i] : i \in 1..Len(keys)}
        n == Cardinality(distinct)
        orders == {f \in [1..n -> distinct] :
                      \A i, j \in 1..n : i # j => f[i] # f[j]}
    IN  {<<"{">>
             \o Join([i \in 1..n |-> JsonQuote(f[i]) \o TxtNullMember], <<",">>)
             \o <<"}">> : f \in orders}

\* C10: removeSignals(ks, o) returns what patchSignals(P, o) returns, P being
\* the JSON object text that maps each given key to null.
C10_RemoveSignalsIsNullPatch ==
    Done("removeSignals") =>
        \E text \in NullPatchTexts(KeysGiven) :
            result = patchSignals(JsString(text), call.options)

-----------------------------------------------------------------------------
(* C11                                                                     *)

\* the string ends with the suffix
EndsWith(s, suffix) ==
    Len(s) >= Len(suffix)
        /\ SubSeq(s, Len(s) - Len(suffix) + 1, Len(s)) = suffix

\* the text of each returned elements line
ElementsTexts ==
    LET framed == LinesOf(DatastarDatalineElements)
        skip == Len(TxtData) + Len(DatastarDatalineElements) + 1
    IN  [i \in 1..Len(framed) |-> SubSeq(framed[i], skip + 1, Len(framed[i]) - 1)]

\* the element the client puts together from the elements lines
ScriptTagReturned == Join(ElementsTexts, <<NL>>)

\* the opening tag of an element: its text up to the first ">"
OpeningTag(tag) ==
    IF \A i \in 1..Len(tag) : tag[i] # ">" THEN tag
    ELSE SubSeq(tag, 1, CHOOSE j \in 1..Len(tag) :
                            tag[j] = ">" /\ \A k \in 1..(j - 1) : tag[k] # ">")

AutoRemoveArg == Get(call.options, OptAutoRemove)

-----------------------------------------------------------------------------
(* C12                                                                     *)

\* C12: executeScript(script, opts) returns exactly the lines that
\* patchElements(tag, {mode: "append", selector: "body", eventId,
\* retryDuration}) returns, tag being the element <script ...>script</script>
\* that the elements lines carry, for every script (multi-line ones too),
\* attributes, autoRemove, eventId and retryDuration.
C12_ExecuteScriptIsPatchElements ==
    Done("executeScript") =>
        LET tag == ScriptTagReturned
            patch == patchElements(
                         JsString(tag),
                         <<Prop(DatastarDatalinePatchMode, JsString(ModeAppend)),
                           Prop(DatastarDatalineSelector, JsString(TxtBody))>>
                             \o EventOptions(call.options))
        IN  /\ StartsWith(tag, TxtScriptOpen)
            /\ EndsWith(tag, <<">">> \o call.payload.s \o TxtScriptClose)
            /\ result.ok
            /\ patch.ok
            /\ result.lines = patch.lines

C12_Witness ==
    /\ Done("executeScript")
    /\ Len(SplitNewline(call.payload.s)) = 3
    /\ call.attributes.form = "object"
    /\ Len(call.attributes.entries) = 1
    /\ EventIdArg = JsString(<<"7">>)
    /\ RetryArg = JsNumber(2500)
    /\ result.ok
    /\ Len(result.lines) = 9

-----------------------------------------------------------------------------
(* C13                                                                     *)

\* C13: removeElements fails with RequiredParameterError iff the selector is
\* absent and elements is absent, empty or white space only; in every other
\* case (removeElements(undefined, html) with no selector among them) it
\* returns a datastar-patch-elements event with the `mode remove` line, and
\* with a selector line only when a selector was given.  Stated for the
\* selectors that are absent or not empty.
C13_RemoveElementsRequires ==
    (Done("removeElements") /\ call.selector # JsString(<<>>)) =>
        LET unusable == call.selector = JsUndefined /\ PayloadBlank
        IN  /\ Failed("RequiredParameterError") <=> unusable
            /\ ~unusable =>
                   /\ result.ok
                   /\ result.lines[1] = TxtEvent \o EventPatchElements \o <<NL>>
                   /\ HasLine(DataLine(DatastarDatalinePatchMode \o <<" ">>
                                           \o ModeRemove))
                   /\ LinesOf(DatastarDatalineSelector) # <<>>
                          <=> call.selector # JsUndefined

-----------------------------------------------------------------------------
(* C14                                                                     *)

\* C14: when removeElements is called with a non-empty selector the elements
\* argument is ignored: the event returned is the one returned when elements
\* is left out, whatever elements is, and it has no elements line.
C14_ElementsIgnoredWithSelector ==
    (Done("removeElements") /\ Truthy(call.selector)) =>
        /\ result.ok
        /\ result.lines
               = removeElements(call.selector, JsUndefined, call.options).lines
        /\ LinesOf(DatastarDatalineElements) = <<>>

-----------------------------------------------------------------------------
(* src/src/node/serverSentEventGenerator.ts: readSignals.                  *)
(* A JSON value is a record with a type tag; an array has its items, an    *)
(* object has its members (key and value) in the order they were added.    *)

JsonValue(t, s, n, b, items) == [t |-> t, s |-> s, n |-> n, b |-> b, items |-> items]
JsonNull == JsonValue("null", <<>>, 0, FALSE, <<>>)

\* JSON.parse: the value of the whole text, or a SyntaxError (whose message
\* is the engine's).  A parsing step fails, or gives a value and the index
\* after it.  Numbers are integers and strings have no \u escape: the texts
\* that are parsed have no fraction, exponent or \u escape.
JsonParse(text) ==
    LET ParseFail == [ok |-> FALSE, pos |-> 0, val |-> JsonNull]
        Parsed(val, pos) == [ok |-> TRUE, pos |-> pos, val |-> val]
        RECURSIVE SkipWs(_)
        SkipWs(i) ==
            IF i <= Len(text) /\ text[i] \in {" ", "\n", "\t", "\r"}
            THEN SkipWs(i + 1) ELSE i
        ParseLiteral(i, word, val) ==
            IF i + Len(word) - 1 <= Len(text)
                   /\ SubSeq(text, i, i + Len(word) - 1) = word
            THEN Parsed(val, i + Len(word))
            ELSE ParseFail
        RECURSIVE DigitsEnd(_)
        DigitsEnd(i) ==
            IF i <= Len(text) /\ text[i] \in Digits THEN DigitsEnd(i + 1) ELSE i
        \* an optional minus sign, then 0 or a number without a leading zero
        ParseNumber(i) ==
            LET start == IF text[i] = "-" THEN i + 1 ELSE i
                end == IF start <= Len(text) /\ text[start] = "0" THEN start + 1
                       ELSE DigitsEnd(start)
                magnitude == ParseNat(SubSeq(text, start, end - 1))
            IN  IF end = start THEN ParseFail
                ELSE Parsed(JsonValue("number", <<>>,
                                      IF text[i] = "-" THEN 0 - magnitude
                                      ELSE magnitude,
                                      FALSE, <<>>),
                            end)
        Unescape(c) ==
            CASE c = "n" -> "\n" [] c = "t" -> "\t" [] c = "r" -> "\r" [] OTHER -> c
        \* the characters of a string up to its closing quote
        RECURSIVE ParseString(_, _)
        ParseString(i, acc) ==
            IF i > Len(text) THEN ParseFail
            ELSE IF text[i] = "\""
            THEN Parsed(JsonValue("string", acc, 0, FALSE, <<>>), i + 1)
            ELSE IF text[i] \in {"\n", "\t", "\r"} THEN ParseFail
            ELSE IF text[i] = "\\"
            THEN IF i + 1 <= Len(text)
                        /\ text[i + 1] \in {"\"", "\\", "/", "n", "t", "r"}
                 THEN ParseString(i + 2, Append(acc, Unescape(text[i + 1])))
                 ELSE ParseFail
            ELSE ParseString(i + 1, Append(acc, text[i]))
        \* a key that is there keeps its place and takes the new value
        SetMember(members, key, val) ==
            IF \E k \in 1..Len(members) : members[k].key = key
            THEN [k \in 1..Len(members) |->
                     IF members[k].key = key THEN Prop(key, val) ELSE members[k]]
            ELSE Append(members, Prop(key, val))
        RECURSIVE ParseValue(_), ParseItems(_, _), ParseMembers(_, _)
        \* the items of an array after "[" or ","
        ParseItems(i, acc) ==
            LET item == ParseValue(i)
                j == SkipWs(item.pos)
            IN  IF ~item.ok \/ j > Len(text) THEN ParseFail
                ELSE IF text[j] = "," THEN ParseItems(j + 1, Append(acc, item.val))
                ELSE IF text[j] = "]"
                THEN Parsed(JsonValue("array", <<>>, 0, FALSE,
                                      Append(acc, item.val)),
                            j + 1)
                ELSE ParseFail
        \* the members of an object after "{" or ","
        ParseMembers(i, acc) ==
            LET k == SkipWs(i)
                key == IF k <= Len(text) /\ text[k] = "\""
                       THEN ParseString(k + 1, <<>>)
                       ELSE ParseFail
                c == SkipWs(key.pos)
                val == IF key.ok /\ c <= Len(text) /\ text[c] = ":"
                       THEN ParseValue(c + 1)
                       ELSE ParseFail
                j == SkipWs(val.pos)
            IN  IF ~val.ok \/ j > Len(text) THEN ParseFail
                ELSE IF text[j] = ","
                THEN ParseMembers(j + 1, SetMember(acc, key.val.s, val.val))
                ELSE IF text[j] = "}"
                THEN Parsed(JsonValue("object", <<>>, 0, FALSE,
                                      SetMember(acc, key.val.s, val.val)),
                            j + 1)
                ELSE ParseFail
        ParseValue(i0) ==
            LET i == SkipWs(i0)
                j == SkipWs(i + 1)
            IN  IF i > Len(text) THEN ParseFail
                ELSE CASE text[i] = "{" ->
                              (IF j <= Len(text) /\ text[j] = "}"
                               THEN Parsed(JsonValue("object", <<>>, 0, FALSE, <<>>),
                                           j + 1)
                               ELSE ParseMembers(i + 1, <<>>))
                       [] text[i] = "[" ->
                              (IF j <= Len(text) /\ text[j] = "]"
                               THEN Parsed(JsonValue("array", <<>>, 0, FALSE, <<>>),
                                           j + 1)
                               ELSE ParseItems(i + 1, <<>>))
                       [] text[i] = "\"" -> ParseString(i + 1, <<>>)
                       [] text[i] = "t" ->
                              ParseLiteral(i, TxtTrue,
                                           JsonValue("boolean", <<>>, 0, TRUE, <<>>))
                       [] text[i] = "f" ->
                              ParseLiteral(i, TxtFalse,
                                           JsonValue("boolean", <<>>, 0, FALSE, <<>>))
                       [] text[i] = "n" ->
                              ParseLiteral(i, <<"n", "u", "l", "l">>, JsonNull)
                       [] text[i] \in Digits \cup {"-"} -> ParseNumber(i)
                       [] OTHER -> ParseFail
        parsed == ParseValue(1)
    IN  IF parsed.ok /\ SkipWs(parsed.pos) = Len(text) + 1
        THEN Normal(parsed.val)
        ELSE Throw("SyntaxError", <<"S", "y", "n", "t", "a", "x", "E", "r",
                                    "r", "o", "r">>)

\* the index of the first character of s that is in the set, Len(s) + 1 if
\* there is none
FirstOf(s, set) ==
    IF \A i \in 1..Len(s) : s[i] \notin set THEN Len(s) + 1
    ELSE CHOOSE i \in 1..Len(s) : s[i] \in set /\ \A k \in 1..(i - 1) : s[k] \notin set

\* String.prototype.split on one separator character
RECURSIVE SplitOn(_, _)
SplitOn(s, sep) ==
    LET i == FirstOf(s, {sep})
    IN  IF i > Len(s) THEN <<s>>
        ELSE <<SubSeq(s, 1, i - 1)>> \o SplitOn(SubSeq(s, i + 1, Len(s)), sep)

\* percent-decoding of a name or value of the query, "+" being a space.
\* Ascii is the printable characters from the space (0x20) to the tilde
\* (0x7E), the grave accent being written U+0060; the texts that are decoded
\* are ASCII.
RECURSIVE FormDecode(_)
FormDecode(s) ==
    LET Ascii ==
            <<" ", "!", "\"", "#", "$", "%", "&", "'", "(", ")", "*", "+",
              ",", "-", ".", "/", "0", "1", "2", "3", "4", "5", "6", "7",
              "8", "9", ":", ";", "<", "=", ">", "?", "@", "A", "B", "C",
              "D", "E", "F", "G", "H", "I", "J", "K", "L", "M", "N", "O",
              "P", "Q", "R", "S", "T", "U", "V", "W", "X", "Y", "Z", "[",
              "\\", "]", "^", "_", "U+0060", "a", "b", "c", "d", "e", "f",
              "g", "h", "i", "j", "k", "l", "m", "n", "o", "p", "q", "r",
              "s", "t", "u", "v", "w", "x", "y", "z", "{", "|", "}", "~">>
        Hex == <<"0", "1", "2", "3", "4", "5", "6", "7", "8", "9", "A", "B",
                 "C", "D", "E", "F">>
        HexLower == <<"0", "1", "2", "3", "4", "5", "6", "7", "8", "9", "a",
                      "b", "c", "d", "e", "f">>
        IsHex(c) == \E d \in 1..Len(Hex) : c \in {Hex[d], HexLower[d]}
        HexValue(c) == (CHOOSE d \in 1..Len(Hex) : c \in {Hex[d], HexLower[d]}) - 1
        code == 16 * HexValue(s[2]) + HexValue(s[3])
        ByteChar ==
            IF code >= 32 /\ code <= 126 THEN Ascii[code - 31]
            ELSE IF code = 10 THEN "\n"
            ELSE IF code = 9 THEN "\t"
            ELSE IF code = 13 THEN "\r"
            ELSE "U+FFFD"
    IN  IF s = <<>> THEN <<>>
        ELSE IF s[1] = "+" THEN <<" ">> \o FormDecode(Tail(s))
        ELSE IF s[1] = "%" /\ Len(s) >= 3 /\ IsHex(s[2]) /\ IsHex(s[3])
        THEN <<ByteChar>> \o FormDecode(SubSeq(s, 4, Len(s)))
        ELSE <<s[1]>> \o FormDecode(Tail(s))

TxtHttp == <<"h", "t", "t", "p", ":", "/", "/">>
TxtLocalhost == <<"l", "o", "c", "a", "l", "h", "o", "s", "t">>
TxtDatastar == <<"d", "a", "t", "a", "s", "t", "a", "r">>

\* new URL(text) for an http URL: the authority runs to the first "/", "?",
\* "#" or backslash; the constructor throws a TypeError when the host is empty or
\* has a forbidden code point or when the port is not a number.  (Hosts in
\* brackets and ports above 65535 are not among the texts.)
NewURL(text) ==
    LET rest == SubSeq(text, Len(TxtHttp) + 1, Len(text))
        authEnd == FirstOf(rest, {"/", "?", "#", "\\"})
        authority == SplitOn(SubSeq(rest, 1, authEnd - 1), "@")
        hostPort == SplitOn(authority[Len(authority)], ":")
        host == hostPort[1]
        port == IF Len(hostPort) = 2 THEN hostPort[2] ELSE <<>>
        after == SubSeq(rest, authEnd, Len(rest))
        beforeHash == SubSeq(after, 1, FirstOf(after, {"#"}) - 1)
        query == SubSeq(beforeHash, FirstOf(beforeHash, {"?"}) + 1, Len(beforeHash))
        forbidden == {" ", "\n", "\t", "\r", "#", "/", ":", "<", ">", "?", "@",
                      "[", "\\", "]", "^", "|", "%"}
    IN  IF \/ host = <<>>
           \/ \E i \in 1..Len(host) : host[i] \in forbidden
           \/ Len(hostPort) > 2
           \/ \E i \in 1..Len(port) : port[i] \notin Digits
        THEN Throw("TypeError", <<"I", "n", "v", "a", "l", "i", "d", " ",
                                  "U", "R", "L">>)
        ELSE Normal([search |-> query])

\* url.searchParams: the name and value pairs of the query, decoded
SearchParams(url) ==
    LET pairs == SelectSeq(SplitOn(url.search, "&"), LAMBDA p : p # <<>>)
    IN  [i \in 1..Len(pairs) |->
            LET eq == FirstOf(pairs[i], {"="})
            IN  Prop(FormDecode(SubSeq(pairs[i], 1, eq - 1)),
                     JsString(FormDecode(SubSeq(pairs[i], eq + 1, Len(pairs[i])))))]

\* isRecord that takes objects only
isRecord_ObjectsOnly(obj) == obj.t = "object"

\* typeof obj === "object" && obj !== null: true of arrays too
isRecord(obj) == obj.t \in {"object", "array"}

\* the two variants readSignals returns
Success(signals) == [success |-> TRUE, signals |-> signals, error |-> <<>>]
Failure(error) == [success |-> FALSE, signals |-> JsonNull, error |-> error]

\* the catch clauses: an Error, whose message is a string, gives its message
Caught(e) ==
    IF e.kind \in {"Error", "SyntaxError", "TypeError"}
    THEN Failure(e.message)
    ELSE Failure(<<"u", "n", "k", "n", "o", "w", "n", " ", "e", "r", "r",
                   "o", "r", " ", "w", "h", "e", "n", " ", "p", "a", "r",
                   "s", "i", "n", "g", " ", "r", "e", "q", "u", "e", "s", "t">>)

\* how the promise of an async function stands
Pending == [settled |-> FALSE, rejected |-> FALSE, value |-> Failure(<<>>),
            reason |-> Normal(<<>>), chunks |-> <<>>]
Resolved(value) == [Pending EXCEPT !.settled = TRUE, !.value = value]
Rejected(reason) ==
    [Pending EXCEPT !.settled = TRUE, !.rejected = TRUE, !.reason = reason]

\* the GET branch (lines 117-138); process.env.HOST is not set
readSignalsGet(requestUrl) ==
    LET url == NewURL(TxtHttp \o TxtLocalhost \o requestUrl)
        params == SearchParams(url.value)
        signals == JsonParse(Get(params, TxtDatastar).s)
    IN  IF url.thrown THEN Rejected(url)
        ELSE IF ~HasKey(params, TxtDatastar)
        THEN Resolved(Caught(Throw("Error",
                 <<"N", "o", " ", "d", "a", "t", "a", "s", "t", "a", "r",
                   " ", "o", "b", "j", "e", "c", "t", " ", "i", "n", " ",
                   "r", "e", "q", "u", "e", "s", "t">>)))
        ELSE IF signals.thrown THEN Resolved(Caught(signals))
        ELSE IF isRecord(signals.value) THEN Resolved(Success(signals.value))
        ELSE Resolved(Caught(Throw("Error",
                 <<"D", "a", "t", "a", "s", "t", "a", "r", " ", "p", "a",
                   "r", "a", "m", " ", "i", "s", " ", "n", "o", "t", " ",
                   "a", " ", "r", "e", "c", "o", "r", "d">>)))

\* the other methods, once the body promise has resolved (lines 149-167)
readSignalsBody(body) ==
    LET parsedBody == JsonParse(body)
    IN  IF parsedBody.thrown THEN Resolved(Caught(parsedBody))
        ELSE IF isRecord(parsedBody.value) THEN Resolved(Success(parsedBody.value))
        ELSE Resolved(Caught(Throw("Error",
                 <<"P", "a", "r", "s", "e", "d", " ", "J", "S", "O", "N",
                   " ", "b", "o", "d", "y", " ", "i", "s", " ", "n", "o",
                   "t", " ", "o", "f", " ", "t", "y", "p", "e", " ", "r",
                   "e", "c", "o", "r", "d">>)))

-----------------------------------------------------------------------------
(* The requests readSignals is called with, and the state machine of one   *)
(* call: the body of a request arrives in chunks, then ends, unless the    *)
(* request is closed before.                                               *)

\* request.url of the GET requests
RequestUrls ==
    {<<"/">>,
     <<"/", "?", "d", "a", "t", "a", "s", "t", "a", "r", "=", "%", "7", "B",
       "%", "2", "2", "f", "o", "o", "%", "2", "2", "%", "3", "A", "%", "2",
       "2", "W", "o", "r", "l", "d", "%", "2", "2", "%", "7", "D">>,
     <<"/", "?", "x", "=", "1", "&", "d", "a", "t", "a", "s", "t", "a", "r",
       "=", "%", "7", "b", "%", "7", "d", "&", "d", "a", "t", "a", "s", "t",
       "a", "r", "=", "1">>,
     <<"/", "?", "d", "a", "t", "a", "s", "t", "a", "r", "=", "%", "5", "B",
       "1", "%", "5", "D">>,
     <<"/", "?", "d", "a", "t", "a", "s", "t", "a", "r", "=", "[", "]">>,
     <<"/", "?", "d", "a", "t", "a", "s", "t", "a", "r", "=", "1">>,
     <<"/", "?", "d", "a", "t", "a", "s", "t", "a", "r", "=", "n", "u", "l",
       "l">>,
     <<"/", "?", "d", "a", "t", "a", "s", "t", "a", "r", "=">>,
     <<"/", "?", "d", "a", "t", "a", "s", "t", "a", "r", "=", "n", "o", "t",
       "+", "j", "s", "o", "n">>,
     <<"/", "?", "D", "a", "t", "a", "s", "t", "a", "r", "=", "%", "7", "B",
       "%", "7", "D", "#", "x">>,
     <<"*", ":", "x">>}

\* the bodies of the other requests
RequestBodies ==
    {<<"{", "\"", "f", "o", "o", "\"", ":", "\"", "W", "o", "r", "l", "d",
       "\"", "}">>,
     <<" ", "{", "\"", "a", "\"", ":", " ", "[", "t", "r", "u", "e", ",",
       " ", "{", "\"", "b", "\"", ":", " ", "n", "u", "l", "l", "}", "]",
       ",", " ", "\"", "a", "\"", ":", " ", "-", "1", "0", "}", " ">>,
     <<"{", "}">>,
     <<"[", "1", "]">>,
     <<"[", "]">>,
     <<"1">>,
     <<"n", "u", "l", "l">>,
     <<"\"", "s", "\"">>,
     <<"n", "o", "t", " ", "j", "s", "o", "n">>,
     <<"{", "\"", "a", "\"", ":">>,
     <<>>}

RequestMethods == {"GET", "POST", "PUT", "DELETE"}

NoRequest ==
    [op |-> "none", method |-> "", url |-> <<>>, body |-> <<>>, pending |-> <<>>]

SignalsInit ==
    /\ pc = "idle"
    /\ call = NoRequest
    /\ result = Pending

\* readSignals(request) up to its first suspension: a GET settles at once,
\* the other methods wait for the body
ReadSignals ==
    /\ pc = "idle"
    /\ \E method \in RequestMethods, url \in RequestUrls, body \in RequestBodies :
          /\ call' = [op |-> "readSignals", method |-> method, url |-> url,
                      body |-> body, pending |-> body]
          /\ IF method = "GET"
             THEN result' = readSignalsGet(url) /\ pc' = "settled"
             ELSE result' = Pending /\ pc' = "reading"

\* request.on("data"): chunks += chunk
Data ==
    /\ pc = "reading"
    /\ \E k \in 1..Len(call.pending) :
          /\ result' = [result EXCEPT !.chunks = @ \o SubSeq(call.pending, 1, k)]
          /\ call' = [call EXCEPT !.pending = SubSeq(@, k + 1, Len(@))]
    /\ pc' = pc

\* request.on("end"): resolve(chunks), and the rest of readSignals
End ==
    /\ pc = "reading"
    /\ call.pending = <<>>
    /\ result' = [readSignalsBody(result.chunks) EXCEPT !.chunks = result.chunks]
    /\ pc' = "settled"
    /\ call' = call

\* the request is aborted, or closed by the client, before its body ended:
\* no listener is registered for that, so nothing resolves the body promise
Close ==
    /\ pc = "reading"
    /\ pc' = "closed"
    /\ UNCHANGED <<call, result>>

\* the caller takes the value (or the rejection) and may call again
SignalsReturn ==
    /\ pc = "settled"
    /\ pc' = "idle"
    /\ call' = NoRequest
    /\ result' = Pending

SignalsNext ==
    \/ ReadSignals
    \/ Data
    \/ End
    \/ Close
    \/ SignalsReturn

SignalsSpec == SignalsInit /\ [][SignalsNext]_vars

-----------------------------------------------------------------------------
(* C15                                                                     *)

\* the input of the call: the `datastar` query parameter of a GET, the whole
\* body of another request
SignalsInput ==
    IF call.method = "GET"
    THEN LET params == SearchParams(NewURL(TxtHttp \o TxtLocalhost \o call.url).value)
         IN  [present |-> HasKey(params, TxtDatastar),
              text |-> Get(params, TxtDatastar).s]
    ELSE [present |-> TRUE, text |-> call.body]

ReadSignalsReturned == pc = "settled" /\ ~result.rejected

\* C15: readSignals returns {success: true, signals: m} iff its input is
\* present and parses as a JSON object, m being that object; when the input
\* is absent, is not JSON, or parses to an array, a scalar or null, it
\* returns {success: false, error: <message>}.
C15_ReadSignalsObjectOnly ==
    ReadSignalsReturned =>
        LET parsed == JsonParse(SignalsInput.text)
            isObject == /\ SignalsInput.present
                        /\ ~parsed.thrown
                        /\ parsed.value.t = "object"
        IN  /\ result.value.success <=> isObject
            /\ isObject => result.value = Success(parsed.value)
            /\ ~isObject => result.value.error # <<>>

-----------------------------------------------------------------------------
(* C16                                                                     *)

\* C16: readSignals never throws and its promise never rejects: whatever the
\* method, the URL and the body, the caller receives {success: true,
\* signals} or {success: false, error: string}.
C16_ReadSignalsNeverRejects ==
    pc = "settled" =>
        /\ ~result.rejected
        /\ \/ result.value.success /\ isRecord(result.value.signals)
           \/ ~result.value.success /\ result.value.error # <<>>

-----------------------------------------------------------------------------
(* src/src/node/serverSentEventGenerator.ts: stream, send and close.       *)
(* JavaScript runs one function at a time, each until it awaits or ends:   *)
(* stream() with the handler it calls, the listener of the request's close *)
(* event, and what the application does later with the generator it kept.  *)
(* The handler is a plan of steps and the way it completes; a callback is  *)
(* not supplied ("none"), returns at once ("sync"), returns a promise that *)
(* resolves later ("async") or rejects later ("rejects"), or throws when   *)
(* it is called ("throws").                                                *)

\* longest plan of a handler
MaxSteps == 3

\* calls the application makes on the generator after stream() has resolved
MaxAppCalls == 1

CallbackKinds == {"none", "sync", "async", "rejects", "throws"}

\* emit: an emitting operation; await: the handler suspends; close: close();
\* fail: an emitting operation that throws, which ends the handler
HandlerPlans ==
    LET steps == {"emit", "await", "close"}
    IN  UNION {[1..k -> steps] : k \in 0..MaxSteps}
          \cup {Append(plan, "fail") :
                   plan \in UNION {[1..k -> steps] : k \in 0..(MaxSteps - 1)}}

\* the history of the session gets one more entry: who did what, and whether
\* the response was still open
Logged(res, by, ev) ==
    [res EXCEPT !.log = Append(@, [by |-> by, ev |-> ev, open |-> ~res.ended])]

\* res.end()
ResEnd(res, by) == [Logged(res, by, "end") EXCEPT !.ended = TRUE]

\* send with the lines joined by a newline in res.write
ResWrite_ExtraNewlines(res, by, operation) ==
    IF ~operation.ok THEN res
    ELSE LET eventLines == operation.lines
             eventText == Join(eventLines, <<NL>>)
         IN  [Logged(res, by, "write") EXCEPT
                 !.returned = Append(@, eventLines),
                 !.pushed = Append(@, eventText),
                 !.written = IF res.ended THEN @ ELSE @ \o eventText]

\* an emitting operation of the generator of a session: one that throws never
\* gets to send; the send override joins the lines of the core send, passes
\* the text to res.write and returns the lines; a response that has ended
\* takes no more text
ResWrite(res, by, operation) ==
    IF ~operation.ok THEN res
    ELSE LET eventLines == operation.lines
             eventText == Join(eventLines, <<>>)
         IN  [Logged(res, by, "write") EXCEPT
                 !.returned = Append(@, eventLines),
                 !.pushed = Append(@, eventText),
                 !.written = IF res.ended THEN @ ELSE @ \o eventText]

\* stream() settles: its promise resolves, or rejects with the error of the
\* handler or of a callback
Settled(res, promise, reason) ==
    [res |-> [res EXCEPT !.promise = promise, !.reason = reason],
     main |-> "settled"]

\* the catch block from `if (options?.onError)` on (lines 72-79); onError is
\* passed the error that was caught, which is the handler's
AfterAbort(res, onError) ==
    LET called == [Logged(res, "stream", "onError") EXCEPT !.passed = "handler"]
    IN  CASE onError = "none" ->
                 Settled(ResEnd(res, "stream"), "rejected", "handler")
          [] onError = "sync" -> Settled(ResEnd(called, "stream"), "resolved", "")
          [] onError = "throws" -> Settled(called, "rejected", "onError")
          [] OTHER -> [res |-> called, main |-> "awaitError"]

\* Catch without the call of the cancellation callback
Catch_SkipsAbort(res, onAbort, onError) == AfterAbort(res, onError)

\* the catch block from its start (lines 69-70)
Catch(res, onAbort, onError) ==
    CASE onAbort = "none" -> AfterAbort(res, onError)
      [] onAbort = "sync" -> AfterAbort(Logged(res, "stream", "onAbort"), onError)
      [] onAbort = "throws" ->
             Settled(Logged(res, "stream", "onAbort"), "rejected", "onAbort")
      [] OTHER -> [res |-> Logged(res, "stream", "onAbort"), main |-> "awaitAbort"]

\* no session yet: a response that is open and has nothing written to it
StreamInit ==
    /\ pc = [main |-> "idle", step |-> 0, close |-> "off"]
    /\ call = [op |-> "none", plan |-> <<>>, outcome |-> "return",
               keepalive |-> FALSE, onAbort |-> "none", onError |-> "none"]
    /\ result = [status |-> 0, headers |-> {}, ended |-> FALSE, log |-> <<>>,
                 returned |-> <<>>, pushed |-> <<>>, written |-> <<>>,
                 promise |-> "none", reason |-> "", passed |-> "",
                 appCalls |-> 0]

\* stream() or the handler is running: nothing else can run
MainRunning == pc.main \in {"handler", "catch"}

\* the headers of an event stream: the content type, the cache directives
\* and the connection header
sseHeaders ==
    {"content-type: text/event-stream", "cache-control", "connection: keep-alive"}

\* Stream with the close listener registered and the handler called before
\* the response is opened
Stream_LateHeaders ==
    /\ pc.main = "idle"
    /\ \E plan \in HandlerPlans, outcome \in {"return", "throw"},
          keepalive \in BOOLEAN, onAbort \in CallbackKinds,
          onError \in CallbackKinds :
          /\ (\E k \in DOMAIN plan : plan[k] = "fail") => outcome = "throw"
          /\ call' = [op |-> "stream", plan |-> plan, outcome |-> outcome,
                      keepalive |-> keepalive, onAbort |-> onAbort,
                      onError |-> onError]
    /\ result' = [Logged(Logged(Logged(Logged(result, "stream", "listen"),
                                       "stream", "onStart"),
                                "stream", "writeHead"),
                         "stream", "flushHeaders")
                     EXCEPT !.promise = "pending", !.status = 200,
                            !.headers = sseHeaders]
    /\ pc' = [main |-> "handler", step |-> 1, close |-> "listening"]

\* stream(req, res, onStart, options) up to the call of onStart: the
\* constructor opens the response with writeHead(200, sseHeaders) and
\* flushes the headers, then the close listener is registered
Stream ==
    /\ pc.main = "idle"
    /\ \E plan \in HandlerPlans, outcome \in {"return", "throw"},
          keepalive \in BOOLEAN, onAbort \in CallbackKinds,
          onError \in CallbackKinds :
          /\ (\E k \in DOMAIN plan : plan[k] = "fail") => outcome = "throw"
          /\ call' = [op |-> "stream", plan |-> plan, outcome |-> outcome,
                      keepalive |-> keepalive, onAbort |-> onAbort,
                      onError |-> onError]
    /\ result' = [Logged(Logged(Logged(Logged(result, "stream", "writeHead"),
                                       "stream", "flushHeaders"),
                                "stream", "listen"),
                         "stream", "onStart")
                     EXCEPT !.promise = "pending", !.status = 200,
                            !.headers = sseHeaders]
    /\ pc' = [main |-> "handler", step |-> 1, close |-> "listening"]

\* the handler calls an emitting operation of the generator
HandlerEmit ==
    /\ pc.main = "handler"
    /\ pc.step <= Len(call.plan)
    /\ call.plan[pc.step] \in {"emit", "fail"}
    /\ result' = ResWrite(result, "handler",
                          CASE call.plan[pc.step] = "fail" ->
                                   patchElements(JsString(<<>>), <<>>)
                            [] Len(result.returned) % 2 = 0 ->
                                   patchElements(JsString(<<"a">>), <<>>)
                            [] OTHER ->
                                   patchSignals(JsString(<<"{", "}">>), <<>>))
    /\ pc' = [pc EXCEPT !.step = @ + 1]
    /\ call' = call

\* the handler calls close() of the generator
HandlerClose ==
    /\ pc.main = "handler"
    /\ pc.step <= Len(call.plan)
    /\ call.plan[pc.step] = "close"
    /\ result' = ResEnd(result, "handler")
    /\ pc' = [pc EXCEPT !.step = @ + 1]
    /\ call' = call

\* the handler awaits something: stream() is suspended at `await stream`
HandlerAwait ==
    /\ pc.main = "handler"
    /\ pc.step <= Len(call.plan)
    /\ call.plan[pc.step] = "await"
    /\ pc' = [pc EXCEPT !.main = "suspended", !.step = @ + 1]
    /\ UNCHANGED <<call, result>>

\* what the handler awaited is there: the handler goes on
HandlerResume ==
    /\ pc.main = "suspended"
    /\ pc' = [pc EXCEPT !.main = "handler"]
    /\ UNCHANGED <<call, result>>

\* HandlerReturn with the keepalive option ignored
HandlerReturn_AlwaysEnds ==
    /\ pc.main = "handler"
    /\ pc.step > Len(call.plan)
    /\ call.outcome = "return"
    /\ LET next == Settled(ResEnd(result, "stream"), "resolved", "")
       IN  result' = next.res /\ pc' = [pc EXCEPT !.main = next.main]
    /\ call' = call

\* the handler completes normally (lines 64-67)
HandlerReturn ==
    /\ pc.main = "handler"
    /\ pc.step > Len(call.plan)
    /\ call.outcome = "return"
    /\ LET next == Settled(IF call.keepalive THEN result
                           ELSE ResEnd(result, "stream"),
                           "resolved", "")
       IN  result' = next.res /\ pc' = [pc EXCEPT !.main = next.main]
    /\ call' = call

\* the handler throws, or its promise rejects: the catch block up to its
\* first suspension (lines 68-79)
HandlerThrow ==
    /\ pc.main = "handler"
    /\ pc.step > Len(call.plan)
    /\ call.outcome = "throw"
    /\ LET next == Catch(result, call.onAbort, call.onError)
       IN  result' = next.res /\ pc' = [pc EXCEPT !.main = next.main]
    /\ call' = call

\* the promise of onAbort settles while the catch block awaits it (line 70)
AbortSettles ==
    /\ pc.main = "awaitAbort"
    /\ LET next == IF call.onAbort = "rejects"
                   THEN Settled(result, "rejected", "onAbort")
                   ELSE AfterAbort(result, call.onError)
       IN  result' = next.res /\ pc' = [pc EXCEPT !.main = next.main]
    /\ call' = call

\* the promise of onError settles while the catch block awaits it (lines 74-75)
ErrorSettles ==
    /\ pc.main = "awaitError"
    /\ LET next == IF call.onError = "rejects"
                   THEN Settled(result, "rejected", "onError")
                   ELSE Settled(ResEnd(result, "stream"), "resolved", "")
       IN  result' = next.res /\ pc' = [pc EXCEPT !.main = next.main]
    /\ call' = call

\* the request emits close (the client has disconnected): the listener runs
\* up to its first suspension (lines 55-60)
Disconnect ==
    /\ pc.close = "listening"
    /\ ~MainRunning
    /\ LET invoked == IF call.onAbort = "none" THEN result
                      ELSE Logged(result, "listener", "onAbort")
       IN  CASE call.onAbort \in {"none", "sync"} ->
                    /\ result' = ResEnd(invoked, "listener")
                    /\ pc' = [pc EXCEPT !.close = "done"]
             [] call.onAbort = "throws" ->
                    /\ result' = invoked
                    /\ pc' = [pc EXCEPT !.close = "failed"]
             [] OTHER ->
                    /\ result' = invoked
                    /\ pc' = [pc EXCEPT !.close = "awaitAbort"]
    /\ call' = call

\* the promise of onAbort settles while the listener awaits it (lines 57-59)
ListenerSettles ==
    /\ pc.close = "awaitAbort"
    /\ ~MainRunning
    /\ IF call.onAbort = "rejects"
       THEN result' = result /\ pc' = [pc EXCEPT !.close = "failed"]
       ELSE /\ result' = ResEnd(Logged(result, "listener", "abortDone"), "listener")
            /\ pc' = [pc EXCEPT !.close = "done"]
    /\ call' = call

\* stream() has resolved with keepalive set and the application kept the
\* generator: it emits an event later
AppEmit ==
    /\ pc.main = "settled"
    /\ call.keepalive
    /\ result.promise = "resolved"
    /\ result.appCalls < MaxAppCalls
    /\ result' = [ResWrite(result, "app",
                           patchElements(JsString(<<"b">>), <<>>))
                     EXCEPT !.appCalls = @ + 1]
    /\ UNCHANGED <<pc, call>>

\* ... or it calls close() (lines 102-104)
AppClose ==
    /\ pc.main = "settled"
    /\ call.keepalive
    /\ result.promise = "resolved"
    /\ result.appCalls < MaxAppCalls
    /\ result' = [ResEnd(result, "app") EXCEPT !.appCalls = @ + 1]
    /\ UNCHANGED <<pc, call>>

StreamNext ==
    \/ Stream
    \/ HandlerEmit
    \/ HandlerClose
    \/ HandlerAwait
    \/ HandlerResume
    \/ HandlerReturn
    \/ HandlerThrow
    \/ AbortSettles
    \/ ErrorSettles
    \/ Disconnect
    \/ ListenerSettles
    \/ AppEmit
    \/ AppClose

StreamSpec == StreamInit /\ [][StreamNext]_vars

-----------------------------------------------------------------------------
(* C17: the end of a session whose handler completes normally.             *)

\* res.end() has been called by: "stream", "handler", "app" or "listener"
EndedBy(by) ==
    \E i \in DOMAIN result.log : result.log[i].by = by /\ result.log[i].ev = "end"

\* the handler of the session has completed normally and stream() has settled
HandlerCompleted ==
    call.op = "stream" /\ call.outcome = "return" /\ pc.main = "settled"

-----------------------------------------------------------------------------
(* C18: the failure path of stream().                                      *)

\* what stream() itself has done since it called the handler, in order
RECURSIVE Trail(_)
Trail(log) ==
    IF log = <<>> \/ log[Len(log)] = [by |-> "stream", ev |-> "onStart", open |-> TRUE]
    THEN <<>>
    ELSE LET before == Trail(SubSeq(log, 1, Len(log) - 1))
         IN  IF log[Len(log)].by = "stream"
             THEN Append(before, log[Len(log)].ev)
             ELSE before

\* the handler of the session has failed
HandlerFailed ==
    /\ call.op = "stream"
    /\ call.outcome = "throw"
    /\ pc.main \in {"awaitAbort", "awaitError", "settled"}

\* the callback is not supplied, or returns or resolves
Completes(callback) == callback \in {"none", "sync", "async"}

AbortTrail == IF call.onAbort = "none" THEN <<>> ELSE <<"onAbort">>

-----------------------------------------------------------------------------
(* C19: no failure path leaves the connection open.                        *)

\* C19: in every execution of stream() in which the handler fails, whichever
\* callbacks are supplied and whether or not a callback itself throws or
\* rejects, the connection has been ended by the time stream() settles.
C19_NeverLeftOpen ==
    HandlerFailed /\ pc.main = "settled" => result.ended

-----------------------------------------------------------------------------
(* C20: the close listener.                                                *)

\* the request has emitted close and the listener has started
ListenerRan == pc.close \in {"awaitAbort", "done", "failed"}

\* the listener has called: "onAbort", "end"
ListenerDid(ev) ==
    \E i \in DOMAIN result.log :
        result.log[i].by = "listener" /\ result.log[i].ev = ev

\* StreamSpec with the scheduling of JavaScript: a function that can go on
\* goes on, and a promise that is awaited settles; when the client
\* disconnects and what the application does later is left open
StreamFairSpec ==
    /\ StreamSpec
    /\ WF_vars(HandlerEmit) /\ WF_vars(HandlerClose) /\ WF_vars(HandlerAwait)
    /\ WF_vars(HandlerResume) /\ WF_vars(HandlerReturn) /\ WF_vars(HandlerThrow)
    /\ WF_vars(AbortSettles) /\ WF_vars(ErrorSettles) /\ WF_vars(ListenerSettles)

\* C20: whenever the client disconnects during a session, while the handler
\* is suspended or after it is done, with keepalive or without: the
\* cancellation callback, if supplied, is called; the listener does not end
\* the connection while the promise of the callback is pending; and the
\* connection is ended afterwards.
C20_DisconnectEndsConnection ==
    /\ [](ListenerRan =>
              /\ call.onAbort # "none" <=> ListenerDid("onAbort")
              /\ pc.close = "awaitAbort" => ~ListenerDid("end"))
    /\ (ListenerRan ~> result.ended)

-----------------------------------------------------------------------------
(* C21: the response is opened first, and once.                            *)

\* the places of the history where ev was done
Places(ev) == {i \in DOMAIN result.log : result.log[i].ev = ev}

\* C21: in every session started by stream() the response has status 200
\* and the headers of an event stream; writeHead and flushHeaders have each
\* been called exactly once, in this order, and before the close listener is
\* registered, before the handler is called and before every write.
C21_HeadersOnceAndFirst ==
    call.op = "stream" =>
        /\ result.status = 200
        /\ result.headers = sseHeaders
        /\ Cardinality(Places("writeHead")) = 1
        /\ Cardinality(Places("flushHeaders")) = 1
        /\ \A h \in Places("writeHead"), f \in Places("flushHeaders") :
               /\ h < f
               /\ \A i \in Places("listen") \cup Places("onStart")
                           \cup Places("write") : f < i
        /\ Places("listen") # {} /\ Places("onStart") # {}

\* a session in which the handler and the application have both written
C21_Witness ==
    /\ call.op = "stream"
    /\ \E i, j \in Places("write") :
           result.log[i].by = "handler" /\ result.log[j].by = "app"
    /\ pc.close = "done"

-----------------------------------------------------------------------------
(* C22: what send of the node generator returns and writes.                *)

\* the line sequences the core operations of the model's handlers return
CoreLines ==
    {patchElements(JsString(<<"a">>), <<>>).lines,
     patchElements(JsString(<<"b">>), <<>>).lines,
     patchSignals(JsString(<<"{", "}">>), <<>>).lines}

\* the writes of the history, in order
Writes == SelectSeq(result.log, LAMBDA entry : entry.ev = "write")

\* C22: every emitting operation of a session that returns, returns the
\* lines of the core send and has passed their concatenation to the
\* connection in one write; an operation that throws writes nothing. So the
\* text the connection has taken is the concatenation, in call order, of the
\* lines returned by the operations that wrote to the open connection (by
\* all that returned, when none came after the end of the response), and
\* every write is one whole event: its only blank line is its end.
C22_SendWritesWhatItReturns ==
    LET RECURSIVE TextOf(_)
        TextOf(k) ==
            IF k = 0 THEN <<>>
            ELSE TextOf(k - 1) \o
                 (IF Writes[k].open
                  THEN Join(result.returned[k], <<>>)
                  ELSE <<>>)
        OneEvent(text) ==
            /\ Len(text) >= 2
            /\ \A i \in 1..(Len(text) - 1) :
                   text[i] = NL /\ text[i + 1] = NL <=> i = Len(text) - 1
    IN  call.op = "stream" =>
            /\ Len(result.returned) = Len(Writes)
            /\ Len(result.pushed) = Len(Writes)
            /\ \A k \in DOMAIN result.returned :
                   /\ result.returned[k] \in CoreLines
                   /\ result.pushed[k] = Join(result.returned[k], <<>>)
                   /\ OneEvent(result.pushed[k])
            /\ result.written = TextOf(Len(Writes))
            /\ (\A k \in DOMAIN Writes : Writes[k].open) =>
                   result.written = Join(Flatten(result.returned), <<>>)

\* the handler has written two different events, its third
\* emitting operation has thrown, and the connection holds the two events
C22_Witness ==
    /\ call.op = "stream"
    /\ call.plan = <<"emit", "emit", "fail">>
    /\ pc.main = "settled"
    /\ Len(result.returned) = 2
    /\ result.returned[1] # result.returned[2]
    /\ result.written = Join(Flatten(result.returned), <<>>)

-----------------------------------------------------------------------------
(* C23: the option lines of patchElements.                                 *)

\* the data lines the option must have in the event: none when the option
\* is not supplied or has its default (mode outer, useViewTransition
\* false), else one for each physical line of its value
OptionLinesDue(key) ==
    LET val == Get(call.options, key)
        isDefault ==
            \/ key = DatastarDatalinePatchMode /\ val = JsString(ModeOuter)
            \/ key = DatastarDatalineUseViewTransition /\ val = JsBoolean(FALSE)
        physical == SplitNewline(JsToString(val))
    IN  IF ~HasKey(call.options, key) \/ isDefault THEN <<>>
        ELSE [i \in 1..Len(physical) |-> key \o <<" ">> \o physical[i]]

\* C23: in every event patchElements returns, the data lines are option
\* lines followed by elements lines; each of selector, mode,
\* useViewTransition and namespace has exactly the lines due to it (one for
\* each physical line of a supplied value that is not the default, none
\* otherwise), there is no other option line, and no data line is made of
\* eventId or retryDuration.
C23_OptionLines ==
    Done("patchElements") /\ result.ok =>
        LET data == DataLinesReturned
            IsElements(l) == StartsWith(l, DatastarDatalineElements \o <<" ">>)
            n == Cardinality({i \in DOMAIN data : ~IsElements(data[i])})
            optionPart == SubSeq(data, 1, n)
            LinesFor(key) ==
                SelectSeq(optionPart, LAMBDA l : StartsWith(l, key \o <<" ">>))
        IN  /\ \A i \in DOMAIN data : IsElements(data[i]) <=> i > n
            /\ \A key \in {DatastarDatalineSelector, DatastarDatalinePatchMode,
                           DatastarDatalineUseViewTransition,
                           DatastarDatalineNamespace} :
                   LinesFor(key) = OptionLinesDue(key)
            /\ n = Len(OptionLinesDue(DatastarDatalineSelector))
                     + Len(OptionLinesDue(DatastarDatalinePatchMode))
                     + Len(OptionLinesDue(DatastarDatalineUseViewTransition))
                     + Len(OptionLinesDue(DatastarDatalineNamespace))
            /\ \A i \in DOMAIN data :
                   /\ ~StartsWith(data[i], OptEventId)
                   /\ ~StartsWith(data[i], OptRetryDuration)

\* an event with all four options, a selector and elements of two physical
\* lines each, a default useViewTransition, an event id and a retry
\* duration
C23_Witness ==
    /\ Done("patchElements")
    /\ result.ok
    /\ Get(call.options, DatastarDatalineSelector) = JsString(<<"#", NL, ".">>)
    /\ Get(call.options, DatastarDatalinePatchMode) = JsString(ModeInner)
    /\ Get(call.options, DatastarDatalineUseViewTransition) = JsBoolean(FALSE)
    /\ Get(call.options, DatastarDatalineNamespace) = JsString(NamespaceSvg)
    /\ Get(call.options, OptEventId) = JsString(<<"7">>)
    /\ Get(call.options, OptRetryDuration) = JsNumber(2500)
    /\ call.payload = JsString(<<"a", NL, "a">>)
    /\ call.options[1].key = DatastarDatalineNamespace
    /\ Len(DataLinesReturned) = 6

-----------------------------------------------------------------------------
(* C24: writes after the end of the response.                              *)

\* C24: once the connection has been ended, by stream() when the handler
\* is done, by close() or by the close listener, no emitting operation
\* writes to it: every res.write of a session is made on a response that
\* has not ended.
C24_NoWriteAfterEnd ==
    \A i \in DOMAIN result.log :
        result.log[i].ev = "write" => result.log[i].open

-----------------------------------------------------------------------------
(* C25: the cancellation callback is called at most once.                  *)

\* C25: in one session the cancellation callback is called at most once,
\* however the completion of the handler, its failure and the disconnect of
\* the client interleave.
C25_AbortAtMostOnce == Cardinality(Places("onAbort")) <= 1

-----------------------------------------------------------------------------
(* C26: the lines of an event.                                             *)

\* C26: every line of every event an emitting operation returns ends with
\* a newline and has no other newline in it, whatever the payload, the
\* option values, the script and the event id.
C26_OneNewlinePerLine ==
    Emitted =>
        \A i \in DOMAIN result.lines :
            LET line == result.lines[i]
            IN  /\ Len(line) >= 1
                /\ \A j \in DOMAIN line : line[j] = NL <=> j = Len(line)

-----------------------------------------------------------------------------
(* C27: readSignals of a request with a body returns.                      *)

\* SignalsSpec with a body that keeps arriving and ends, unless the request
\* is closed before; whether and when it is closed is left open
SignalsFairSpec ==
    /\ SignalsSpec
    /\ WF_vars(Data) /\ WF_vars(End) /\ WF_vars(SignalsReturn)

\* C27: readSignals of a request that is not a GET returns a tagged result
\* for every request: only once the whole body has been received, the
\* chunks put together in the order of their arrival, and also when the
\* request is aborted or closed by the client before its body has ended.
C27_ReadSignalsReturns ==
    /\ [](pc = "settled" /\ call.method # "GET" =>
              /\ call.pending = <<>>
              /\ result.chunks = call.body
              /\ ~result.rejected)
    /\ (call.op = "readSignals" /\ call.method # "GET" ~> pc = "settled")

====
